---- MODULE Spec2Model ----
(***************************************************************************)
(* kegtui: the navigation/rendering controller (App), the navigation       *)
(* registry and stack (NavContext), the views' interactivity/click         *)
(* contract, and the background refresher that publishes the shared        *)
(* snapshot (AsyncState) behind an RwLock.                                  *)
(***************************************************************************)
EXTENDS Integers, Sequences, FiniteSets, TLC

VARIABLES
    cfg,          \* which registration (set of navs and views) the run uses
    app,          \* App: exit, focus, menu_state, current_view, clickables_state,
                  \*      current_keg, show_keybinds_modal
    stack,        \* NavContext.stack
    cpc,          \* position of the render loop (App::run)
    last,         \* what the last handled key was and did (history)
    lock,         \* the RwLock around AsyncState: readers held, writer held
    async_state,  \* AsyncState: kegs, engines, wrappers
    wpc,          \* position of the refresher thread (spawn_worker)
    cycle,        \* number of scan cycles the refresher has started
    scanned,      \* the refresher's local kegs list of the current cycle
    skips,        \* publishes skipped since the last one that took the lock
                  \* (history)
    quit,         \* a () is queued on the quit channel
    guard,        \* the TerminateWorkerGuard is still alive
    stopAt,       \* whether the guard was dropped while a scan was under way
    stack0,       \* the stack before the first operation (stack discipline)
    ops,          \* the push_nav / pop_nav calls made so far (stack discipline)
    term,         \* the terminal: alternate screen, raw mode, full redraw due
    status,       \* how the process has ended, "running" until then
    context,      \* the NavContext while views and navs are being registered
                  \* (a run uses Context(cfg), what the registrations built)
    issued,       \* the ids the registrations returned so far (history)
    interval,     \* App::run's `interval`: the instant the tick is scheduled
                  \* for, in ms since the loop was entered
    now,          \* the clock, in ms since the loop was entered
    tpc,          \* position inside a tick: "top" or "body"
    ticks,        \* number of ticks started
    skipped,      \* consecutive ticks so far that did not sleep (history)
    work          \* how long the body of the last tick took, in ms (history)

vars == <<cfg, app, stack, cpc, last, lock, async_state, wpc, cycle, scanned,
          skips, quit, guard, stopAt, stack0, ops, term, status, context, issued,
          interval, now, tpc, ticks, skipped, work>>

(* ------------------------------ bounds -------------------------------- *)

\* largest number of kegs one scan discovers
MaxKegs == 2
\* number of scan cycles the refresher starts
MaxCycles == 2
\* number of Down presses followed on a Scrollable view
MaxScrolls == 1
\* number of push_nav / pop_nav calls in the stack-discipline runs
MaxOps == 4
\* depth of the stack the stack-discipline runs start from
MaxDepth0 == 2
\* number of items of the menus enumerated for a nav registration
MaxItems == 2
\* number of NavContext::view / NavContext::nav calls in the registry runs
MaxRegs == 3
\* number of ticks of the render loop whose timing is followed
MaxTicks == 6
\* longest overrun of a tick's body, in periods
MaxLate == 3

(* --------------------------- program constants ------------------------ *)

\* lines scrolled per Up/Down on a Scrollable view
ScrollStep == 3

(* ------------------------------ values -------------------------------- *)

None == [kind |-> "None"]
Some(x) == [kind |-> "Some", value |-> x]

Index(i) == [kind |-> "Index", index |-> i]
Named(s) == [kind |-> "Named", name |-> s]

Pop == [kind |-> "Pop"]
Push(nav_id) == [kind |-> "Push", nav |-> nav_id]

NavAction(a) == [kind |-> "NavAction", action |-> a]
LoadView(v) == [kind |-> "LoadView", view |-> v]
External(f) == [kind |-> "External", fn |-> f]

MenuItem_new(name, action) ==
    [name |-> name, is_default |-> FALSE, action |-> action]
MenuItem_default(item) == [item EXCEPT !.is_default = TRUE]

Clickables(n) == [kind |-> "Clickables", count |-> n]
Scrollable == [kind |-> "Scrollable"]
NoInteractivity == [kind |-> "None"]

saturating_sub(x, y) == IF x >= y THEN x - y ELSE 0

(* ------------------------------ NavContext ---------------------------- *)

NavContext_default ==
    [views |-> <<>>, named_view_ids |-> <<>>, navs |-> <<>>,
     named_nav_ids |-> <<>>, panic |-> FALSE]

\* table_insert with a bug: a name already in the table keeps its index
table_insert_keep_first(t, name, i) ==
    IF \E k \in 1..Len(t) : t[k][1] = name THEN t
    ELSE Append(t, <<name, i>>)

\* a name -> index table kept as a sequence of pairs; a later insert of the
\* same name replaces the earlier pair
table_insert(t, name, i) ==
    LET kept == SelectSeq(t, LAMBDA p : p[1] # name)
    IN Append(kept, <<name, i>>)
table_has(t, name) == \E k \in 1..Len(t) : t[k][1] = name
table_get(t, name) == t[CHOOSE k \in 1..Len(t) : t[k][1] = name][2]

NavContext_view(c, name, view) ==
    LET views == Append(c.views, view)
    IN [ret |-> Index(Len(views) - 1),
        ctx |-> [c EXCEPT !.views = views,
                          !.named_view_ids =
                              table_insert(@, name, Len(views) - 1)]]

\* first_default with a bug: the last flagged item wins
last_default(menu) ==
    IF \E k \in 1..Len(menu) : menu[k].is_default
    THEN (CHOOSE k \in 1..Len(menu) :
             /\ menu[k].is_default
             /\ \A j \in (k + 1)..Len(menu) : ~menu[j].is_default) - 1
    ELSE 0

first_default(menu) ==
    IF \E k \in 1..Len(menu) : menu[k].is_default
    THEN (CHOOSE k \in 1..Len(menu) :
             /\ menu[k].is_default
             /\ \A j \in 1..(k - 1) : ~menu[j].is_default) - 1
    ELSE 0

\* NavContext_nav with a bug: the emptiness assertion is missing, so an empty
\* menu is stored like any other
NavContext_nav_unchecked(c, name, menu) ==
    LET default_item == first_default(menu)
        navs == Append(c.navs, [menu |-> menu, default_item |-> default_item])
    IN [ret |-> Index(Len(navs) - 1),
        ctx |-> [c EXCEPT !.navs = navs,
                          !.named_nav_ids =
                              table_insert(@, name, Len(navs) - 1)]]

NavContext_nav(c, name, menu) ==
    LET default_item == first_default(menu)
    IN IF Len(menu) = 0
       THEN [ret |-> None, ctx |-> [c EXCEPT !.panic = TRUE]]
       ELSE LET navs == Append(c.navs,
                               [menu |-> menu, default_item |-> default_item])
            IN [ret |-> Index(Len(navs) - 1),
                ctx |-> [c EXCEPT !.navs = navs,
                                  !.named_nav_ids =
                                      table_insert(@, name, Len(navs) - 1)]]

\* push_nav with a bug: the nav is inserted at the bottom of the stack
push_nav_front(s, nav) == <<nav>> \o s

push_nav(s, nav) == Append(s, nav)

\* pop_nav with a bug: the popped entry is unwrapped, which fails on an empty
\* stack
pop_nav_unwrap(s) ==
    [stack |-> IF Len(s) = 0 THEN s ELSE SubSeq(s, 1, Len(s) - 1),
     panic |-> Len(s) = 0]

pop_nav(s) ==
    [stack |-> IF Len(s) = 0 THEN s ELSE SubSeq(s, 1, Len(s) - 1),
     panic |-> FALSE]

top_nav(s) == IF Len(s) = 0 THEN None ELSE Some(s[Len(s)])

\* get_view_index / get_nav_index: Index(i) is i, Named(n) is looked up and
\* unwrapped; get_*_ref then indexes the table (both panic when there is no
\* such entry)
view_resolves(c, id) ==
    IF id.kind = "Index" THEN id.index < Len(c.views)
    ELSE table_has(c.named_view_ids, id.name)
get_view_index(c, id) ==
    IF id.kind = "Index" THEN id.index ELSE table_get(c.named_view_ids, id.name)
get_view(c, id) == c.views[get_view_index(c, id) + 1]

nav_resolves(c, id) ==
    IF id.kind = "Index" THEN id.index < Len(c.navs)
    ELSE table_has(c.named_nav_ids, id.name)
get_nav_index(c, id) ==
    IF id.kind = "Index" THEN id.index ELSE table_get(c.named_nav_ids, id.name)
get_nav(c, id) == c.navs[get_nav_index(c, id) + 1]
default_item_index(nav) == nav.default_item

(* --------------------------- registrations ---------------------------- *)

\* main(): views "kegs" and "credits", navs "main" and "keg"; run starts on
\* the id returned for "main"
\* ShippedRegistration with a bug: the "main" menu has a Back item
ShippedRegistrationWithBack ==
    LET kegs_view == NavContext_view(NavContext_default, "kegs", "KegsView")
        credits_view == NavContext_view(kegs_view.ctx, "credits", "CreditsView")
        main_nav == NavContext_nav(credits_view.ctx, "main",
            << MenuItem_new("Kegs", LoadView(kegs_view.ret)),
               MenuItem_new("Create Keg", External("create_keg")),
               MenuItem_new("Clear Winetricks Cache",
                            External("clear_winetricks_cache")),
               MenuItem_new("Setup Wizard", External("setup_wizard")),
               MenuItem_new("Back", NavAction(Pop)) >>)
        keg_nav == NavContext_nav(main_nav.ctx, "keg",
            << MenuItem_new("Back", NavAction(Pop)),
               MenuItem_default(MenuItem_new("Launch", External("launch_keg"))),
               MenuItem_new("Winetricks", External("winetricks")),
               MenuItem_new("Open C Drive", External("open_c_drive")),
               MenuItem_new("Edit Config", External("edit_config")),
               MenuItem_default(MenuItem_new("Kill Processes",
                                             External("kill_wineserver"))) >>)
    IN [context |-> keg_nav.ctx, initial |-> main_nav.ret]

ShippedRegistration ==
    LET kegs_view == NavContext_view(NavContext_default, "kegs", "KegsView")
        credits_view == NavContext_view(kegs_view.ctx, "credits", "CreditsView")
        main_nav == NavContext_nav(credits_view.ctx, "main",
            << MenuItem_new("Kegs", LoadView(kegs_view.ret)),
               MenuItem_new("Create Keg", External("create_keg")),
               MenuItem_new("Clear Winetricks Cache",
                            External("clear_winetricks_cache")),
               MenuItem_new("Setup Wizard", External("setup_wizard")),
               MenuItem_new("Credits", LoadView(credits_view.ret)) >>)
        keg_nav == NavContext_nav(main_nav.ctx, "keg",
            << MenuItem_new("Back", NavAction(Pop)),
               MenuItem_default(MenuItem_new("Launch", External("launch_keg"))),
               MenuItem_new("Winetricks", External("winetricks")),
               MenuItem_new("Open C Drive", External("open_c_drive")),
               MenuItem_new("Edit Config", External("edit_config")),
               MenuItem_default(MenuItem_new("Kill Processes",
                                             External("kill_wineserver"))) >>)
    IN [context |-> keg_nav.ctx, initial |-> main_nav.ret]

\* a second registration through the same NavContext calls: the initial nav
\* pushes "keg" from a menu item and has a Pop item of its own, and "keg"
\* has a view to load next to its Pop item
RootBackRegistration ==
    LET kegs_view == NavContext_view(NavContext_default, "kegs", "KegsView")
        credits_view == NavContext_view(kegs_view.ctx, "credits", "CreditsView")
        main_nav == NavContext_nav(credits_view.ctx, "main",
            << MenuItem_new("Keg", NavAction(Push(Named("keg")))),
               MenuItem_new("Back", NavAction(Pop)) >>)
        keg_nav == NavContext_nav(main_nav.ctx, "keg",
            << MenuItem_new("Back", NavAction(Pop)),
               MenuItem_default(MenuItem_new("Credits",
                                             LoadView(Named("credits")))) >>)
    IN [context |-> keg_nav.ctx, initial |-> main_nav.ret]

\* the registration of the setup wizard's main: the credits view and the
\* setup wizard view, one nav that loads each, and the setup wizard's nav as
\* the initial one (KegWorks is not installed)
WizardRegistration ==
    LET credits_view == NavContext_view(NavContext_default, "credits",
                                        "CreditsView")
        setup_wizard_view == NavContext_view(credits_view.ctx, "setup_wizard",
                                             "SetupWizardView")
        setup_wizard_nav == NavContext_nav(setup_wizard_view.ctx, "setup_wizard",
            << MenuItem_new("Setup Wizard", LoadView(setup_wizard_view.ret)) >>)
        main_nav == NavContext_nav(setup_wizard_nav.ctx, "main",
            << MenuItem_new("Credits", LoadView(credits_view.ret)) >>)
    IN [context |-> main_nav.ctx, initial |-> setup_wizard_nav.ret]

Registrations == {"shipped", "root_back"}
Registration(c) ==
    IF c = "shipped" THEN ShippedRegistration
    ELSE IF c = "root_back" THEN RootBackRegistration
    ELSE WizardRegistration
Context(c) == Registration(c).context

(* -------------------------------- views ------------------------------- *)

\* SetupWizardView::interactivity: one command to copy for each missing
\* program and a third one when both are missing
setup_wizard_interactivity(state) ==
    IF state.brew_installed = Some(FALSE)
       /\ state.kegworks_installed = Some(FALSE)
    THEN Clickables(3)
    ELSE IF state.brew_installed = Some(FALSE)
            \/ state.kegworks_installed = Some(FALSE)
    THEN Clickables(1)
    ELSE NoInteractivity

\* View::interactivity of the registered views
\* interactivity with a bug: the Kegs view reports the count of the fullest
\* list it has seen instead of asking the snapshot it is given
interactivity_remembered(view, a, state) ==
    IF view = "KegsView"
    THEN Clickables(MaxKegs)
    ELSE Scrollable

interactivity(view, a, state) ==
    IF view = "KegsView"
    THEN IF Len(state.kegs) = 0 THEN NoInteractivity
         ELSE Clickables(Len(state.kegs))
    ELSE IF view = "SetupWizardView" THEN setup_wizard_interactivity(state)
    ELSE Scrollable

\* SetupWizardView::click: the command to copy is chosen by the two
\* statuses, unreachable!() when neither program is reported missing; copied
\* says whether copy_to_clipboard succeeds
setup_wizard_click(a, state, index, copied) ==
    IF state.brew_installed = Some(FALSE)
       /\ state.kegworks_installed = Some(FALSE)
    THEN IF index >= 3
         THEN [app |-> a, res |-> "panic", action |-> None]
         ELSE [app |-> a, res |-> IF copied THEN "ok" ELSE "err",
               action |-> None]
    ELSE IF state.brew_installed = Some(FALSE)
            \/ state.kegworks_installed = Some(FALSE)
    THEN [app |-> a, res |-> IF copied THEN "ok" ELSE "err", action |-> None]
    ELSE [app |-> a, res |-> "panic", action |-> None]

\* SetupWizardView::draw_content: the row of the help text that is shown as
\* selected, unreachable!() for a cursor other than 0, 1 and 2; every other
\* view draws whatever the cursor is
draw_content_panics(view, a) ==
    view = "SetupWizardView" /\ a.clickables_state \notin {0, 1, 2}

\* View::click: KegsView hydrates kegs[index] into current_keg (hydrated says
\* whether reading the keg's plist succeeds) and asks for Push("keg"); every
\* other view keeps the trait's default, which does nothing
\* click with a bug: current_keg is cleared before the keg is hydrated
click_clears_first(view, a, state, index, hydrated) ==
    IF view = "KegsView" /\ Len(state.kegs) # 0
    THEN IF index >= Len(state.kegs)
         THEN [app |-> a, res |-> "panic", action |-> None]
         ELSE IF ~hydrated
         THEN [app |-> [a EXCEPT !.current_keg = None],
               res |-> "err", action |-> None]
         ELSE [app |-> [a EXCEPT !.current_keg = Some(state.kegs[index + 1])],
               res |-> "ok", action |-> Some(Push(Named("keg")))]
    ELSE [app |-> a, res |-> "ok", action |-> None]

\* click with a bug: the first keg is opened whatever the index is
click_first_keg(view, a, state, index, hydrated) ==
    IF view = "KegsView" /\ Len(state.kegs) # 0
    THEN IF index >= Len(state.kegs)
         THEN [app |-> a, res |-> "panic", action |-> None]
         ELSE IF ~hydrated
         THEN [app |-> a, res |-> "err", action |-> None]
         ELSE [app |-> [a EXCEPT !.current_keg = Some(state.kegs[1])],
               res |-> "ok", action |-> Some(Push(Named("keg")))]
    ELSE [app |-> a, res |-> "ok", action |-> None]

\* click with a bug: the keg menu is pushed without a keg being selected
click_no_select(view, a, state, index, hydrated) ==
    IF view = "KegsView" /\ Len(state.kegs) # 0
    THEN IF index >= Len(state.kegs)
         THEN [app |-> a, res |-> "panic", action |-> None]
         ELSE IF ~hydrated
         THEN [app |-> a, res |-> "err", action |-> None]
         ELSE [app |-> a, res |-> "ok", action |-> Some(Push(Named("keg")))]
    ELSE [app |-> a, res |-> "ok", action |-> None]

click(view, a, state, index, hydrated) ==
    IF view = "KegsView" /\ Len(state.kegs) # 0
    THEN IF index >= Len(state.kegs)
         THEN [app |-> a, res |-> "panic", action |-> None]
         ELSE IF ~hydrated
         THEN [app |-> a, res |-> "err", action |-> None]
         ELSE [app |-> [a EXCEPT !.current_keg = Some(state.kegs[index + 1])],
               res |-> "ok", action |-> Some(Push(Named("keg")))]
    ELSE IF view = "SetupWizardView"
    THEN setup_wizard_click(a, state, index, hydrated)
    ELSE [app |-> a, res |-> "ok", action |-> None]

(* --------------------------------- App -------------------------------- *)

App_new ==
    [exit |-> FALSE, focus |-> "Menu", menu_state |-> 0, current_view |-> None,
     clickables_state |-> 0, current_keg |-> None,
     show_keybinds_modal |-> FALSE]

\* the result of a piece of key handling: the App and stack it leaves, how it
\* ended ("ok", "err" for a returned Err, "panic", "external" while an
\* External collaborator runs), and which nav action it applied
Result(a, s, res, nav) == [app |-> a, stack |-> s, res |-> res, nav |-> nav]

\* load_view with a bug: the interaction cursor is not reset
load_view_keep_cursor(a, view_id) ==
    [a EXCEPT !.current_view = Some(view_id), !.focus = "Content"]

\* load_view with a bug: focus stays on the menu
load_view_keep_focus(a, view_id) ==
    [a EXCEPT !.current_view = Some(view_id), !.clickables_state = 0]

load_view(a, view_id) ==
    [a EXCEPT !.current_view = Some(view_id),
              !.focus = "Content",
              !.clickables_state = 0]

\* execute_nav_action with a bug: only a Push selects the default row, and
\* focus and current view are left as they were
execute_nav_action_no_reset(a, c, s, nav_action) ==
    LET popped == pop_nav(s)
        s1 == IF nav_action.kind = "Pop" THEN popped.stack
              ELSE push_nav(s, nav_action.nav)
        top == top_nav(s1)
    IN IF nav_action.kind = "Pop"
       THEN Result(a, s1, IF popped.panic THEN "panic" ELSE "ok", "Pop")
       ELSE IF top = None \/ ~nav_resolves(c, top.value)
       THEN Result(a, s1, "panic", "Push")
       ELSE Result([a EXCEPT !.menu_state =
                                 default_item_index(get_nav(c, top.value))],
                   s1, "ok", "Push")

\* execute_nav_action with a bug: the current view is cleared but focus is
\* left where it was
execute_nav_action_keeps_focus(a, c, s, nav_action) ==
    LET popped == pop_nav(s)
        s1 == IF nav_action.kind = "Pop" THEN popped.stack
              ELSE push_nav(s, nav_action.nav)
        a1 == [a EXCEPT !.current_view = None]
        top == top_nav(s1)
    IN IF nav_action.kind = "Pop" /\ popped.panic
       THEN Result(a, s, "panic", nav_action.kind)
       ELSE IF top = None \/ ~nav_resolves(c, top.value)
       THEN Result(a1, s1, "panic", nav_action.kind)
       ELSE Result([a1 EXCEPT !.menu_state =
                                  default_item_index(get_nav(c, top.value))],
                   s1, "ok", nav_action.kind)

execute_nav_action(a, c, s, nav_action) ==
    LET popped == pop_nav(s)
        s1 == IF nav_action.kind = "Pop" THEN popped.stack
              ELSE push_nav(s, nav_action.nav)
        a1 == [a EXCEPT !.focus = "Menu", !.current_view = None]
        top == top_nav(s1)
    IN IF nav_action.kind = "Pop" /\ popped.panic
       THEN Result(a, s, "panic", nav_action.kind)
       ELSE IF top = None \/ ~nav_resolves(c, top.value)
       THEN Result(a1, s1, "panic", nav_action.kind)
       ELSE Result([a1 EXCEPT !.menu_state =
                                  default_item_index(get_nav(c, top.value))],
                   s1, "ok", nav_action.kind)

execute_menu_action(a, c, s, menu_action) ==
    IF menu_action.kind = "NavAction"
    THEN execute_nav_action(a, c, s, menu_action.action)
    ELSE IF menu_action.kind = "LoadView"
    THEN Result(load_view(a, menu_action.view), s, "ok", "none")
    ELSE Result(a, s, "external", "none")

App_exit(a) == [a EXCEPT !.exit = TRUE]

Keys == {"q", "Esc", "?", "Up", "k", "Down", "j", "Left", "h", "Right", "l",
         "Enter", "z", "other"}

\* the match arm a key code falls in
KeyArm(key) ==
    CASE key = "k" -> "Up"
      [] key = "j" -> "Down"
      [] key = "h" -> "Left"
      [] key = "l" -> "Right"
      [] OTHER -> key

\* Up/Down with the menu focused
menu_up(a) == [a EXCEPT !.menu_state = saturating_sub(@, 1)]

\* menu_down with a bug: Down on the last row wraps around to the first
menu_down_wraps(a, menu) ==
    IF a.menu_state + 1 < Len(menu)
    THEN [a EXCEPT !.menu_state = @ + 1]
    ELSE [a EXCEPT !.menu_state = 0]

menu_down(a, menu) ==
    IF a.menu_state + 1 < Len(menu)
    THEN [a EXCEPT !.menu_state = @ + 1]
    ELSE a

\* content_up with a bug: a scrollable view scrolls up by one line
content_up_by_one(a, inter) ==
    IF inter.kind = "Scrollable"
    THEN [a EXCEPT !.clickables_state = saturating_sub(@, 1)]
    ELSE IF inter.kind = "Clickables"
    THEN [a EXCEPT !.clickables_state = saturating_sub(@, 1)]
    ELSE a

\* Up/Down with the content focused: the bound is the active view's
\* interactivity for the snapshot of this tick
content_up(a, inter) ==
    IF inter.kind = "Scrollable"
    THEN [a EXCEPT !.clickables_state = saturating_sub(@, ScrollStep)]
    ELSE IF inter.kind = "Clickables"
    THEN [a EXCEPT !.clickables_state = saturating_sub(@, 1)]
    ELSE a

\* content_down with a bug: the bound is off by one
content_down_off_by_one(a, inter) ==
    IF inter.kind = "Scrollable"
    THEN [a EXCEPT !.clickables_state = @ + ScrollStep]
    ELSE IF inter.kind = "Clickables"
    THEN IF a.clickables_state < inter.count
         THEN [a EXCEPT !.clickables_state = @ + 1]
         ELSE a
    ELSE a

content_down(a, inter) ==
    IF inter.kind = "Scrollable"
    THEN [a EXCEPT !.clickables_state = @ + ScrollStep]
    ELSE IF inter.kind = "Clickables"
    THEN IF a.clickables_state + 1 < inter.count
         THEN [a EXCEPT !.clickables_state = @ + 1]
         ELSE a
    ELSE a

\* focus_menu with a bug: going back to the menu also unloads the view
focus_menu_unloads(a) == [a EXCEPT !.focus = "Menu", !.current_view = None]

\* Esc, Left and h: self.focus = Focus::Menu
focus_menu(a) == [a EXCEPT !.focus = "Menu"]

\* key_right with a bug: Right follows navigation actions but does not
\* load views
key_right_no_load(a, c, s, action) ==
    IF a.focus = "Menu" /\ action.kind # "LoadView"
    THEN execute_menu_action(a, c, s, action)
    ELSE Result(a, s, "ok", "none")

\* Right and l: the highlighted item's action, only with the menu focused
key_right(a, c, s, action) ==
    IF a.focus = "Menu"
    THEN execute_menu_action(a, c, s, action)
    ELSE Result(a, s, "ok", "none")

\* the match on key_event.code, once the modal is hidden and the highlighted
\* item of the top nav has been found
handle_key_code(a, c, s, key, state, hydrated, menu) ==
    LET current_menu_item == menu[a.menu_state + 1]
        has_view == a.current_view # None
                    /\ view_resolves(c, a.current_view.value)
        current_view == get_view(c, a.current_view.value)
    IN CASE key = "q" -> Result(App_exit(a), s, "ok", "none")
         [] key = "Esc" -> Result(focus_menu(a), s, "ok", "none")
         [] key = "?" ->
              Result([a EXCEPT !.show_keybinds_modal = TRUE], s, "ok", "none")
         [] key \in {"Up", "k"} ->
              IF a.focus = "Menu"
              THEN Result(menu_up(a), s, "ok", "none")
              ELSE IF ~has_view THEN Result(a, s, "panic", "none")
              ELSE Result(content_up(a, interactivity(current_view, a, state)),
                          s, "ok", "none")
         [] key \in {"Down", "j"} ->
              IF a.focus = "Menu"
              THEN Result(menu_down(a, menu), s, "ok", "none")
              ELSE IF ~has_view THEN Result(a, s, "panic", "none")
              ELSE Result(content_down(a, interactivity(current_view, a, state)),
                          s, "ok", "none")
         [] key \in {"Left", "h"} -> Result(focus_menu(a), s, "ok", "none")
         [] key \in {"Right", "l"} ->
              key_right(a, c, s, current_menu_item.action)
         [] key = "Enter" ->
              IF a.focus = "Menu"
              THEN execute_menu_action(a, c, s, current_menu_item.action)
              ELSE IF ~has_view THEN Result(a, s, "panic", "none")
              ELSE LET clicked == click(current_view, a, state,
                                        a.clickables_state, hydrated)
                   IN IF clicked.res # "ok"
                      THEN Result(clicked.app, s, clicked.res, "none")
                      ELSE IF clicked.action = None
                      THEN Result(clicked.app, s, "ok", "none")
                      ELSE execute_nav_action(clicked.app, c, s,
                                              clicked.action.value)
         [] key = "z" ->
              execute_menu_action(a, c, s, External("inspect_terminal"))
         [] OTHER -> Result(a, s, "ok", "none")

\* handle_key_event with a bug: q is not suspended by the keybinds modal
handle_key_event_modal_quits(a, c, s, key, state, hydrated) ==
    IF a.show_keybinds_modal /\ key # "q"
    THEN Result(IF key \in {"Esc", "?"}
                THEN [a EXCEPT !.show_keybinds_modal = FALSE] ELSE a,
                s, "ok", "none")
    ELSE LET top == top_nav(s)
         IN IF top = None \/ ~nav_resolves(c, top.value)
            THEN Result(a, s, "panic", "none")
            ELSE LET menu == get_nav(c, top.value).menu
                 IN IF a.menu_state >= Len(menu)
                    THEN Result(a, s, "panic", "none")
                    ELSE handle_key_code(a, c, s, key, state, hydrated, menu)

handle_key_event(a, c, s, key, state, hydrated) ==
    IF a.show_keybinds_modal
    THEN Result(IF key \in {"Esc", "?"}
                THEN [a EXCEPT !.show_keybinds_modal = FALSE] ELSE a,
                s, "ok", "none")
    ELSE LET top == top_nav(s)
         IN IF top = None \/ ~nav_resolves(c, top.value)
            THEN Result(a, s, "panic", "none")
            ELSE LET menu == get_nav(c, top.value).menu
                 IN IF a.menu_state >= Len(menu)
                    THEN Result(a, s, "panic", "none")
                    ELSE handle_key_code(a, c, s, key, state, hydrated, menu)

(* ------------------------- the shared snapshot ------------------------ *)

\* AsyncState::default(): three empty lists. kegs is the list of keg ids; the
\* content of each list is identified by the scan cycle that built it (0 for
\* the initial empty lists)
AsyncState_default ==
    [kegs |-> <<>>, from |-> [kegs |-> 0, engines |-> 0, wrappers |-> 0]]

\* what one scan of the search paths can find
KegLists == { [i \in 1..n |-> i] : n \in 0..MaxKegs }

Unlocked == [readers |-> 0, writer |-> FALSE]

\* RwLock::read() waits while the lock is held for writing
read_ready(l) == ~l.writer

\* try_write with a bug: readers do not keep the writer out
try_write_despite_readers(l) == ~l.writer

\* RwLock::try_write() succeeds only when nobody holds the lock
try_write(l) == ~l.writer /\ l.readers = 0

(* ----------------------------- the terminal --------------------------- *)

\* ratatui::init(): raw mode on, alternate screen entered (and a panic hook
\* installed that restores the terminal before the panic is reported)
ratatui_init == [alt |-> TRUE, raw |-> TRUE, clear |-> FALSE]

\* ratatui::restore(): raw mode off, alternate screen left
ratatui_restore(t) == [alt |-> FALSE, raw |-> FALSE, clear |-> FALSE]

\* the fallible calls around an External collaborator, in program order;
\* `fails` names the first one that returns Err ("none": all succeed)
LeaveCalls == {"LeaveAlternateScreen", "disable_raw_mode"}
ReturnCalls == {"external", "EnterAlternateScreen", "enable_raw_mode", "clear"}

\* io::stdout().execute(LeaveAlternateScreen)?; disable_raw_mode()?;
leave_terminal(t, fails) ==
    CASE fails = "LeaveAlternateScreen" -> t
      [] fails = "disable_raw_mode" -> [t EXCEPT !.alt = FALSE]
      [] OTHER -> [t EXCEPT !.alt = FALSE, !.raw = FALSE]

\* enter_terminal with a bug: raw mode is not enabled again
enter_terminal_cooked(t, fails) ==
    CASE fails \in {"external", "EnterAlternateScreen"} -> t
      [] fails = "enable_raw_mode" -> [t EXCEPT !.alt = TRUE]
      [] fails = "clear" -> [t EXCEPT !.alt = TRUE]
      [] OTHER -> [alt |-> TRUE, raw |-> t.raw, clear |-> TRUE]

\* external(self, state)?; io::stdout().execute(EnterAlternateScreen)?;
\* enable_raw_mode()?; terminal.clear()?;
enter_terminal(t, fails) ==
    CASE fails \in {"external", "EnterAlternateScreen"} -> t
      [] fails = "enable_raw_mode" -> [t EXCEPT !.alt = TRUE]
      [] fails = "clear" -> [t EXCEPT !.alt = TRUE, !.raw = TRUE]
      [] OTHER -> [alt |-> TRUE, raw |-> TRUE, clear |-> TRUE]

(* ------------------------------ behaviour ----------------------------- *)

NoLast == [key |-> "none", nav |-> "none"]

\* let mut interval = Instant::now(): the schedule starts at the clock
TickStart ==
    /\ interval = 0
    /\ now = 0
    /\ tpc = "top"
    /\ ticks = 0
    /\ skipped = 0
    /\ work = 0

Init ==
    /\ cfg \in Registrations
    /\ app = App_new
    /\ stack = <<>>
    /\ cpc = "start"
    /\ last = NoLast
    /\ lock = Unlocked
    /\ async_state = AsyncState_default
    /\ wpc = "check"
    /\ cycle = 0
    /\ skips = 0
    /\ scanned = <<>>
    /\ quit = FALSE
    /\ guard = TRUE
    /\ stopAt = "none"
    /\ stack0 = <<>>
    /\ ops = <<>>
    /\ term = ratatui_init
    /\ status = "running"
    /\ context = NavContext_default
    /\ issued = <<>>
    /\ TickStart

StackVars == <<stack0, ops>>
RegistryVars == <<context, issued>>
TickVars == <<interval, now, tpc, ticks, skipped, work>>
WorkerVars == <<wpc, cycle, scanned, skips>>
StopVars == <<quit, guard, stopAt>>

Ended == {"done", "error", "panicked"}

\* RunReturns with a bug: ratatui::restore() is called only when run
\* returned Ok
RunReturnsRestoreOnOk(c, t) ==
    IF c \in Ended
    THEN /\ term' = IF c = "done" THEN ratatui_restore(t) ELSE t
         /\ status' = CASE c = "done" -> "exit_ok"
                        [] c = "error" -> "exit_err"
                        [] OTHER -> "abort"
         /\ guard' = FALSE
         /\ quit' = TRUE
         /\ stopAt' = IF wpc = "scan" THEN "scan" ELSE "other"
    ELSE /\ term' = t
         /\ UNCHANGED <<status, StopVars>>

\* the end of a step of run that leaves the render loop at c and the
\* terminal as t. When run has ended (c in Ended) main goes on without
\* waiting for anything: ratatui::restore(), app_result returned as the
\* process's result, and the guard dropped, which sends () on the quit
\* channel; after a panic the hook of ratatui::init has restored the
\* terminal already and the unwinding drops the guard
RunReturns(c, t) ==
    IF c \in Ended
    THEN /\ term' = IF c = "panicked" THEN t ELSE ratatui_restore(t)
         /\ status' = CASE c = "done" -> "exit_ok"
                        [] c = "error" -> "exit_err"
                        [] OTHER -> "abort"
         /\ guard' = FALSE
         /\ quit' = TRUE
         /\ stopAt' = IF wpc = "scan" THEN "scan" ELSE "other"
    ELSE /\ term' = t
         /\ UNCHANGED <<status, StopVars>>

\* App::run up to the loop: push the initial nav
RunStart ==
    /\ cpc = "start"
    /\ stack' = push_nav(stack, Registration(cfg).initial)
    /\ cpc' = "read"
    /\ UNCHANGED <<cfg, app, last, lock, async_state, WorkerVars, StopVars,
                   StackVars, RegistryVars, term, status,
                   TickVars>>

\* top of the loop body: sleep to the next tick, state.read(), and
\* terminal.draw(..) of the menu of the top nav and of the current view;
\* a draw that returns an I/O error ends run with that error, and a view
\* whose draw_content panics ends it with the panic
ReadSnapshot ==
    /\ cpc = "read"
    /\ read_ready(lock)
    /\ \E drawn \in BOOLEAN :
         IF /\ app.current_view # None
            /\ view_resolves(Context(cfg), app.current_view.value)
            /\ draw_content_panics(get_view(Context(cfg),
                                            app.current_view.value), app)
         THEN /\ lock' = lock
              /\ cpc' = "panicked"
              /\ RunReturns("panicked", ratatui_restore(term))
         ELSE IF drawn
         THEN /\ lock' = [lock EXCEPT !.readers = @ + 1]
              /\ cpc' = "poll"
              /\ RunReturns("poll", [term EXCEPT !.clear = FALSE])
         ELSE /\ lock' = lock
              /\ cpc' = "error"
              /\ RunReturns("error", term)
    /\ last' = NoLast
    /\ UNCHANGED <<cfg, app, stack, async_state, WorkerVars, StackVars,
                   RegistryVars,
                   TickVars>>

\* EndTick with a bug: the loop condition does not look at the exit flag
EndTickForever(a) ==
    /\ lock' = [lock EXCEPT !.readers = @ - 1]
    /\ cpc' = "read"
    /\ RunReturns("read", term)

\* EndTick with a bug: the read guard outlives the loop body
EndTickKeepsGuard(a) ==
    /\ lock' = lock
    /\ cpc' = IF a.exit THEN "done" ELSE "read"
    /\ RunReturns(IF a.exit THEN "done" ELSE "read", term)

\* the end of a tick: the read guard is dropped and `while !self.exit` decides
EndTick(a) ==
    /\ lock' = [lock EXCEPT !.readers = @ - 1]
    /\ cpc' = IF a.exit THEN "done" ELSE "read"
    /\ RunReturns(IF a.exit THEN "done" ELSE "read", term)

\* handle_events: the poll times out, or the event is no key press
PollNone ==
    /\ cpc = "poll"
    /\ EndTick(app)
    /\ UNCHANGED <<cfg, app, stack, last, async_state, WorkerVars, StackVars,
                   RegistryVars,
                   TickVars>>

\* handle_events: event::poll or event::read returns an I/O error
PollError ==
    /\ cpc = "poll"
    /\ lock' = [lock EXCEPT !.readers = @ - 1]
    /\ cpc' = "error"
    /\ RunReturns("error", term)
    /\ UNCHANGED <<cfg, app, stack, last, async_state, WorkerVars, StackVars,
                   RegistryVars,
                   TickVars>>

\* the interaction cursor is followed up to MaxScrolls scroll steps (and over
\* every keg of a list)
CursorCap ==
    IF MaxScrolls * ScrollStep > MaxKegs THEN MaxScrolls * ScrollStep
    ELSE MaxKegs

\* PollKey with a bug: the read guard is dropped before the External
\* collaborator is run
PollKeyDropsGuard ==
    /\ cpc = "poll"
    /\ \E key \in Keys :
       \E hydrated \in IF key = "Enter" THEN BOOLEAN ELSE {TRUE} :
         LET r == handle_key_event(app, Context(cfg), stack, key, async_state,
                                   hydrated)
         IN /\ r.app.clickables_state <= CursorCap
            /\ app' = r.app
            /\ stack' = r.stack
            /\ last' = [key |-> KeyArm(key), nav |-> r.nav]
            /\ IF r.res = "ok" THEN EndTick(r.app)
               ELSE IF r.res = "external"
               THEN \E fails \in LeaveCalls \cup {"none"} :
                      IF fails = "none"
                      THEN /\ cpc' = "external"
                           /\ lock' = [lock EXCEPT !.readers = @ - 1]
                           /\ RunReturns("external", leave_terminal(term, fails))
                      ELSE /\ cpc' = "error"
                           /\ lock' = [lock EXCEPT !.readers = @ - 1]
                           /\ RunReturns("error", leave_terminal(term, fails))
               ELSE IF r.res = "panic"
               THEN /\ cpc' = "panicked"
                    /\ lock' = [lock EXCEPT !.readers = @ - 1]
                    /\ RunReturns("panicked", ratatui_restore(term))
               ELSE /\ cpc' = "error"
                    /\ lock' = [lock EXCEPT !.readers = @ - 1]
                    /\ RunReturns("error", term)
    /\ UNCHANGED <<cfg, async_state, WorkerVars, StackVars, RegistryVars,
                   TickVars>>

\* handle_events: a key press is read and handled. An External action
\* leaves the alternate screen and raw mode and then runs the collaborator
\* inside this same call; a panic runs the hook of ratatui::init
PollKey ==
    /\ cpc = "poll"
    /\ \E key \in Keys :
       \E hydrated \in IF key = "Enter" THEN BOOLEAN ELSE {TRUE} :
         LET r == handle_key_event(app, Context(cfg), stack, key, async_state,
                                   hydrated)
         IN /\ r.app.clickables_state <= CursorCap
            /\ app' = r.app
            /\ stack' = r.stack
            /\ last' = [key |-> KeyArm(key), nav |-> r.nav]
            /\ IF r.res = "ok" THEN EndTick(r.app)
               ELSE IF r.res = "external"
               THEN \E fails \in LeaveCalls \cup {"none"} :
                      IF fails = "none"
                      THEN /\ cpc' = "external"
                           /\ lock' = lock
                           /\ RunReturns("external", leave_terminal(term, fails))
                      ELSE /\ cpc' = "error"
                           /\ lock' = [lock EXCEPT !.readers = @ - 1]
                           /\ RunReturns("error", leave_terminal(term, fails))
               ELSE IF r.res = "panic"
               THEN /\ cpc' = "panicked"
                    /\ lock' = [lock EXCEPT !.readers = @ - 1]
                    /\ RunReturns("panicked", ratatui_restore(term))
               ELSE /\ cpc' = "error"
                    /\ lock' = [lock EXCEPT !.readers = @ - 1]
                    /\ RunReturns("error", term)
    /\ UNCHANGED <<cfg, async_state, WorkerVars, StackVars, RegistryVars,
                   TickVars>>

\* the External collaborator returns (the render loop held the read lock
\* while it ran); then EnterAlternateScreen, enable_raw_mode and
\* terminal.clear(), and the tick ends
ExternalReturn ==
    /\ cpc = "external"
    /\ \E fails \in ReturnCalls \cup {"none"} :
         LET c == IF fails = "none" THEN (IF app.exit THEN "done" ELSE "read")
                  ELSE "error"
         IN /\ lock' = [lock EXCEPT !.readers = @ - 1]
            /\ cpc' = c
            /\ RunReturns(c, enter_terminal(term, fails))
    /\ UNCHANGED <<cfg, app, stack, last, async_state, WorkerVars, StackVars,
                   RegistryVars,
                   TickVars>>

ControllerVars == <<cfg, app, stack, cpc, last, term, status>>

\* WorkerCheck with a bug: the quit channel is not looked at inside the loop
WorkerCheckNoQuit ==
    /\ wpc = "check"
    /\ cycle < MaxCycles
    /\ wpc' = "scan"
    /\ cycle' = cycle + 1
    /\ scanned' = <<>>
    /\ UNCHANGED <<ControllerVars, lock, async_state, skips, StopVars, StackVars,
                   RegistryVars,
                   TickVars>>

\* top of the refresher's loop, reached after thread::sleep(1 s):
\* quit_rx.try_recv(), then the locals of a new scan
WorkerCheck ==
    /\ wpc = "check"
    /\ IF quit
       THEN /\ wpc' = "exited"
            /\ quit' = FALSE
            /\ UNCHANGED <<cycle, scanned>>
       ELSE /\ cycle < MaxCycles
            /\ wpc' = "scan"
            /\ cycle' = cycle + 1
            /\ scanned' = <<>>
            /\ quit' = quit
    /\ UNCHANGED <<ControllerVars, lock, async_state, skips, guard, stopAt,
                   StackVars, RegistryVars,
                   TickVars>>

\* the three scans of the search paths
WorkerScan ==
    /\ wpc = "scan"
    /\ scanned' \in KegLists
    /\ wpc' = "publish"
    /\ UNCHANGED <<ControllerVars, lock, async_state, cycle, skips, StopVars,
                   StackVars, RegistryVars,
                   TickVars>>

\* WorkerPublish with a bug: write() instead of try_write(), which waits for
\* the lock
WorkerPublishBlocking ==
    /\ wpc = "publish"
    /\ try_write(lock)
    /\ lock' = [lock EXCEPT !.writer = TRUE]
    /\ wpc' = "write_kegs"
    /\ skips' = 0
    /\ UNCHANGED <<ControllerVars, async_state, cycle, scanned, StopVars,
                   StackVars, RegistryVars,
                   TickVars>>

\* WorkerPublish with a bug: when the lock is held the thread keeps the lists
\* and tries to publish them again instead of starting a new scan
WorkerPublishRetries ==
    /\ wpc = "publish"
    /\ IF try_write(lock)
       THEN /\ lock' = [lock EXCEPT !.writer = TRUE]
            /\ wpc' = "write_kegs"
            /\ scanned' = scanned
            /\ skips' = 0
       ELSE /\ skips < MaxCycles
            /\ lock' = lock
            /\ wpc' = "publish"
            /\ scanned' = scanned
            /\ skips' = skips + 1
    /\ UNCHANGED <<ControllerVars, async_state, cycle, StopVars, StackVars, RegistryVars,
                   TickVars>>

\* async_state.try_write(): take the lock, or skip this cycle's publish and
\* go to sleep
WorkerPublish ==
    /\ wpc = "publish"
    /\ IF try_write(lock)
       THEN /\ lock' = [lock EXCEPT !.writer = TRUE]
            /\ wpc' = "write_kegs"
            /\ scanned' = scanned
            /\ skips' = 0
       ELSE /\ lock' = lock
            /\ wpc' = "check"
            /\ scanned' = <<>>
            /\ skips' = skips + 1
    /\ UNCHANGED <<ControllerVars, async_state, cycle, StopVars, StackVars, RegistryVars,
                   TickVars>>

\* WorkerWriteKegs with a bug: the refresher also rewinds the controller's
\* interaction cursor when it replaces the keg list
WorkerWriteKegsRewindsCursor ==
    /\ wpc = "write_kegs"
    /\ async_state' = [async_state EXCEPT !.kegs = scanned, !.from.kegs = cycle]
    /\ scanned' = <<>>
    /\ wpc' = "write_engines"
    /\ app' = [app EXCEPT !.clickables_state = 0]
    /\ UNCHANGED <<cfg, stack, cpc, last, term, status, lock, cycle, skips,
                   StopVars,
                   StackVars, RegistryVars,
                   TickVars>>

\* lock.kegs = kegs
WorkerWriteKegs ==
    /\ wpc = "write_kegs"
    /\ async_state' = [async_state EXCEPT !.kegs = scanned, !.from.kegs = cycle]
    /\ scanned' = <<>>
    /\ wpc' = "write_engines"
    /\ UNCHANGED <<ControllerVars, lock, cycle, skips, StopVars, StackVars,
                   RegistryVars,
                   TickVars>>

\* lock.engines = engines
WorkerWriteEngines ==
    /\ wpc = "write_engines"
    /\ async_state' = [async_state EXCEPT !.from.engines = cycle]
    /\ wpc' = "write_wrappers"
    /\ UNCHANGED <<ControllerVars, lock, cycle, scanned, skips, StopVars,
                   StackVars, RegistryVars,
                   TickVars>>

\* lock.wrappers = wrappers, the write guard is dropped, and the thread
\* goes to sleep
WorkerWriteWrappers ==
    /\ wpc = "write_wrappers"
    /\ async_state' = [async_state EXCEPT !.from.wrappers = cycle]
    /\ lock' = [lock EXCEPT !.writer = FALSE]
    /\ wpc' = "check"
    /\ UNCHANGED <<ControllerVars, cycle, scanned, skips, StopVars, StackVars,
                   RegistryVars,
                   TickVars>>

Controller ==
    \/ RunStart
    \/ ReadSnapshot
    \/ PollNone
    \/ PollError
    \/ PollKey
    \/ ExternalReturn

Worker ==
    \/ WorkerCheck
    \/ WorkerScan
    \/ WorkerPublish
    \/ WorkerWriteKegs
    \/ WorkerWriteEngines
    \/ WorkerWriteWrappers

Next ==
    \/ Controller
    \/ Worker

Spec == Init /\ [][Next]_vars

\* the refresher is a thread of its own: the scheduler keeps running it
FairSpec == Spec /\ WF_vars(Worker)

(* ----------------------- the refresher without end --------------------- *)

\* the top of the refresher's loop for a thread that is followed through
\* any number of cycles: the cycles after MaxCycles share its number
LiveWorkerCheck ==
    /\ wpc = "check"
    /\ IF quit
       THEN /\ wpc' = "exited"
            /\ quit' = FALSE
            /\ UNCHANGED <<cycle, scanned>>
       ELSE /\ wpc' = "scan"
            /\ cycle' = IF cycle < MaxCycles THEN cycle + 1 ELSE cycle
            /\ scanned' = <<>>
            /\ quit' = quit
    /\ UNCHANGED <<ControllerVars, lock, async_state, skips, guard, stopAt,
                   StackVars, RegistryVars, TickVars>>

\* async_state.try_write() of such a thread: the skipped publishes are
\* counted up to MaxCycles
LiveWorkerPublish ==
    /\ wpc = "publish"
    /\ IF try_write(lock)
       THEN /\ lock' = [lock EXCEPT !.writer = TRUE]
            /\ wpc' = "write_kegs"
            /\ scanned' = scanned
            /\ skips' = 0
       ELSE /\ lock' = lock
            /\ wpc' = "check"
            /\ scanned' = <<>>
            /\ skips' = IF skips < MaxCycles THEN skips + 1 ELSE skips
    /\ UNCHANGED <<ControllerVars, async_state, cycle, StopVars, StackVars,
                   RegistryVars, TickVars>>

LiveWorker ==
    \/ LiveWorkerCheck
    \/ WorkerScan
    \/ LiveWorkerPublish
    \/ WorkerWriteKegs
    \/ WorkerWriteEngines
    \/ WorkerWriteWrappers

LiveNext ==
    \/ Controller
    \/ LiveWorker

\* a publish attempt that takes the write lock
PublishLands == LiveWorkerPublish /\ wpc' = "write_kegs"

\* the scheduler keeps running the refresher thread, and a publish attempt
\* that could take the lock again and again does take it
LiveSpec ==
    /\ Init
    /\ [][LiveNext]_vars
    /\ WF_vars(LiveWorker)
    /\ SF_vars(PublishLands)

(* --------------------------- the setup wizard ------------------------- *)

\* AsyncState::default() of the setup wizard's program: no kegs, and
\* neither program's status known
WizardState_default ==
    [kegs |-> <<>>, brew_installed |-> None, kegworks_installed |-> None]

\* the program is started with the setup wizard's registration
WizardInit ==
    /\ cfg = "wizard"
    /\ app = App_new
    /\ stack = <<>>
    /\ cpc = "start"
    /\ last = NoLast
    /\ lock = Unlocked
    /\ async_state = WizardState_default
    /\ wpc = "check"
    /\ cycle = 0
    /\ skips = 0
    /\ scanned = <<>>
    /\ quit = FALSE
    /\ guard = TRUE
    /\ stopAt = "none"
    /\ stack0 = <<>>
    /\ ops = <<>>
    /\ term = ratatui_init
    /\ status = "running"
    /\ context = NavContext_default
    /\ issued = <<>>
    /\ TickStart

\* the scan of the search paths, then is_brew_installed() and
\* is_kegworks_installed()
WizardScan ==
    /\ wpc = "scan"
    /\ scanned' \in [kegs : KegLists, brew_installed : BOOLEAN,
                     kegworks_installed : BOOLEAN]
    /\ wpc' = "publish"
    /\ UNCHANGED <<ControllerVars, lock, async_state, cycle, skips, StopVars,
                   StackVars, RegistryVars, TickVars>>

\* lock.kegs, lock.brew_installed and lock.kegworks_installed are assigned
\* under the write guard, which is then dropped
WizardWrite ==
    /\ wpc = "write_kegs"
    /\ async_state' = [kegs |-> scanned.kegs,
                       brew_installed |-> Some(scanned.brew_installed),
                       kegworks_installed |-> Some(scanned.kegworks_installed)]
    /\ scanned' = <<>>
    /\ lock' = [lock EXCEPT !.writer = FALSE]
    /\ wpc' = "check"
    /\ UNCHANGED <<ControllerVars, cycle, skips, StopVars, StackVars,
                   RegistryVars, TickVars>>

WizardWorker ==
    \/ WorkerCheck
    \/ WizardScan
    \/ WorkerPublish
    \/ WizardWrite

WizardNext ==
    \/ Controller
    \/ WizardWorker

WizardSpec == WizardInit /\ [][WizardNext]_vars

(* ------------------ the stack under arbitrary push/pop ---------------- *)

NavIDs == {Index(0), Index(1), Named("main"), Named("keg")}

StacksUpTo(n) == UNION { [1..k -> NavIDs] : k \in 0..n }

StackInit ==
    /\ cfg = "shipped"
    /\ app = App_new
    /\ stack \in StacksUpTo(MaxDepth0)
    /\ stack0 = stack
    /\ ops = <<>>
    /\ cpc = "start"
    /\ last = NoLast
    /\ lock = Unlocked
    /\ async_state = AsyncState_default
    /\ wpc = "check"
    /\ cycle = 0
    /\ skips = 0
    /\ scanned = <<>>
    /\ quit = FALSE
    /\ guard = TRUE
    /\ stopAt = "none"
    /\ term = ratatui_init
    /\ status = "running"
    /\ context = NavContext_default
    /\ issued = <<>>
    /\ TickStart

\* context.push_nav(nav)
StackPush ==
    /\ cpc = "start"
    /\ Len(ops) < MaxOps
    /\ \E nav \in NavIDs : stack' = push_nav(stack, nav)
    /\ ops' = Append(ops, "push")
    /\ UNCHANGED <<cfg, app, cpc, last, lock, async_state, WorkerVars,
                   StopVars, stack0, term, status, RegistryVars,
                   TickVars>>

\* context.pop_nav()
StackPop ==
    /\ cpc = "start"
    /\ Len(ops) < MaxOps
    /\ stack' = pop_nav(stack).stack
    /\ cpc' = IF pop_nav(stack).panic THEN "panicked" ELSE cpc
    /\ ops' = Append(ops, "pop")
    /\ UNCHANGED <<cfg, app, last, lock, async_state, WorkerVars, StopVars,
                   stack0, term, status, RegistryVars,
                   TickVars>>

StackNext ==
    \/ StackPush
    \/ StackPop

StackSpec == StackInit /\ [][StackNext]_vars

(* ------------------- the registry under registrations ---------------- *)

\* the menus a nav registration is tried with: every menu of up to MaxItems
\* items, flagged default or not, and the menu of the shipped nav "keg"
FlaggedItem(flag) ==
    IF flag THEN MenuItem_default(MenuItem_new("item", NavAction(Pop)))
    ELSE MenuItem_new("item", NavAction(Pop))
MenuInputs ==
    UNION { { [k \in 1..n |-> FlaggedItem(f[k])] : f \in [1..n -> BOOLEAN] } :
            n \in 0..MaxItems }
ShippedKegMenu == get_nav(ShippedRegistration.context, Named("keg")).menu
ViewInputs == {"KegsView", "CreditsView"}
NavNames == {"main", "keg"}

RegistryInit ==
    /\ cfg = "shipped"
    /\ app = App_new
    /\ stack = <<>>
    /\ stack0 = <<>>
    /\ ops = <<>>
    /\ cpc = "start"
    /\ last = NoLast
    /\ lock = Unlocked
    /\ async_state = AsyncState_default
    /\ wpc = "check"
    /\ cycle = 0
    /\ skips = 0
    /\ scanned = <<>>
    /\ quit = FALSE
    /\ guard = TRUE
    /\ stopAt = "none"
    /\ term = ratatui_restore(ratatui_init)
    /\ status = "running"
    /\ context = NavContext_default
    /\ issued = <<>>
    /\ TickStart

RegistryFixed ==
    <<cfg, app, stack, stack0, ops, cpc, last, lock, async_state, WorkerVars,
      StopVars, term, status, TickVars>>

\* context.view(name, view)
RegisterView ==
    /\ cpc = "start"
    /\ ~context.panic
    /\ Len(issued) < MaxRegs
    /\ \E view \in ViewInputs :
         LET r == NavContext_view(context, "kegs", view)
         IN /\ context' = r.ctx
            /\ issued' = Append(issued, [kind |-> "view", name |-> "kegs",
                                         id |-> r.ret, entry |-> view])
    /\ UNCHANGED RegistryFixed

\* context.nav(name, menu); the assertion on an empty menu ends the process
RegisterNav ==
    /\ cpc = "start"
    /\ ~context.panic
    /\ Len(issued) < MaxRegs
    /\ \E name \in NavNames, menu \in MenuInputs \cup {ShippedKegMenu} :
         LET r == NavContext_nav(context, name, menu)
         IN /\ context' = r.ctx
            /\ issued' = IF r.ctx.panic THEN issued
                         ELSE Append(issued, [kind |-> "nav", name |-> name,
                                              id |-> r.ret, entry |-> menu])
    /\ UNCHANGED RegistryFixed

RegistryNext ==
    \/ RegisterView
    \/ RegisterNav

RegistrySpec == RegistryInit /\ [][RegistryNext]_vars

\* App::new(..).run(&mut context, initial, ..) up to the loop, with any of
\* the navs registered so far as the initial nav: context.push_nav(initial)
RegistryRun ==
    /\ cpc = "start"
    /\ ~context.panic
    /\ \E i \in 1..Len(issued) :
         /\ issued[i].kind = "nav"
         /\ stack' = push_nav(stack, issued[i].id)
    /\ cpc' = "read"
    /\ UNCHANGED <<cfg, app, stack0, ops, last, lock, async_state, WorkerVars,
                   StopVars, term, status, RegistryVars, TickVars>>

StartNext ==
    \/ RegistryNext
    \/ RegistryRun

StartSpec == RegistryInit /\ [][StartNext]_vars

(* ------------------- the timing of the render loop -------------------- *)

\* let duration = Duration::from_millis(20)
duration == 20

\* event::poll(Duration::from_millis(5))
PollTimeout == 5

\* how long draw and handle_events can take: the poll's timeout when no key
\* arrives, or longer by whole periods (an external action, a slow draw)
BodyTimes == {PollTimeout} \cup {PollTimeout + k * duration : k \in 1..MaxLate}

TickInit ==
    /\ cfg = "shipped"
    /\ app = App_new
    /\ stack = <<Index(0)>>
    /\ stack0 = <<>>
    /\ ops = <<>>
    /\ cpc = "read"
    /\ last = NoLast
    /\ lock = Unlocked
    /\ async_state = AsyncState_default
    /\ wpc = "check"
    /\ cycle = 0
    /\ skips = 0
    /\ scanned = <<>>
    /\ quit = FALSE
    /\ guard = TRUE
    /\ stopAt = "none"
    /\ term = ratatui_init
    /\ status = "running"
    /\ context = NavContext_default
    /\ issued = <<>>
    /\ TickStart

TickFixed ==
    <<cfg, app, stack, stack0, ops, cpc, last, lock, async_state, WorkerVars,
      StopVars, term, status, RegistryVars>>

\* top of the loop: interval += duration; let now = Instant::now();
\* if now < interval { thread::sleep(interval - now) }
TickTop ==
    /\ tpc = "top"
    /\ ticks < MaxTicks
    /\ ticks' = ticks + 1
    /\ interval' = interval + duration
    /\ IF now < interval'
       THEN /\ now' = interval'
            /\ skipped' = 0
       ELSE /\ now' = now
            /\ skipped' = skipped + 1
    /\ tpc' = "body"
    /\ UNCHANGED <<work, TickFixed>>

\* the rest of the iteration: state.read(), terminal.draw, handle_events
TickBody ==
    /\ tpc = "body"
    /\ \E d \in BodyTimes :
         /\ now' = now + d
         /\ work' = d
    /\ tpc' = "top"
    /\ UNCHANGED <<interval, ticks, skipped, TickFixed>>

TickNext ==
    \/ TickTop
    \/ TickBody

TickSpec == TickInit /\ [][TickNext]_vars


(* -------------------------------- claims ------------------------------ *)

TopNav == get_nav(Context(cfg), top_nav(stack).value)

\* C1: after the Controller has applied a Push or a Pop, focus is Menu, no
\* view is current and the selected row is the default item index of the
\* nav now on top; and a current view is always one the top nav's menu loads
C1_ResetOnNavigation ==
    /\ last.nav # "none" =>
         /\ app.focus = "Menu"
         /\ app.current_view = None
         /\ top_nav(stack) # None =>
              app.menu_state = default_item_index(TopNav)
    /\ app.current_view # None =>
         /\ top_nav(stack) # None
         /\ \E k \in 1..Len(TopNav.menu) :
              TopNav.menu[k].action = LoadView(app.current_view.value)

\* C1 witness: "Back" of nav "keg" was activated after a keg had been
\* clicked: nav "main" is on top again with its default row selected
C1_Witness ==
    /\ cfg = "shipped"
    /\ last = [key |-> "Enter", nav |-> "Pop"]
    /\ stack = <<Index(0)>>
    /\ app.current_keg # None
    /\ app.focus = "Menu"
    /\ app.current_view = None
    /\ app.menu_state = 0

ActiveInteractivity ==
    interactivity(get_view(Context(cfg), app.current_view.value), app,
                  async_state)

\* C3: with the content focused on a view reporting Clickables(n), n >= 1,
\* and the cursor in [0, n-1], an Up or Down press leaves the cursor in
\* [0, n-1]: Down adds one but stays at n-1, Up subtracts one but stays at 0
C3_CursorClamping ==
    [][ (/\ cpc = "poll"
         /\ last'.key \in {"Up", "Down"}
         /\ ~app.show_keybinds_modal
         /\ app.focus = "Content"
         /\ app.current_view # None
         /\ ActiveInteractivity.kind = "Clickables"
         /\ ActiveInteractivity.count >= 1
         /\ app.clickables_state < ActiveInteractivity.count)
        => LET n == ActiveInteractivity.count
               c == app.clickables_state
           IN /\ app'.clickables_state \in 0..(n - 1)
              /\ last'.key = "Down" =>
                   app'.clickables_state = IF c = n - 1 THEN n - 1 ELSE c + 1
              /\ last'.key = "Up" =>
                   app'.clickables_state = IF c = 0 THEN 0 ELSE c - 1 ]_vars

\* C3 witness: Down presses on the Kegs view with the largest keg list have
\* brought the cursor to the last keg
C3_Witness ==
    /\ last.key = "Down"
    /\ app.focus = "Content"
    /\ app.current_view # None
    /\ ActiveInteractivity = Clickables(MaxKegs)
    /\ app.clickables_state = MaxKegs - 1

\* C4 as claimed: a tick that has reached its read of the snapshot is never
\* kept waiting: the render loop can always take its next step there
C4_NonBlockingRead ==
    cpc = "read" => ENABLED Controller

\* C5: whenever the render loop holds the read lock (drawing, handling a
\* key, running a view's click or an External collaborator), the three
\* lists of the snapshot come from one and the same scan cycle
C5_SnapshotAtomicity ==
    lock.readers > 0 =>
        /\ async_state.from.kegs = async_state.from.engines
        /\ async_state.from.engines = async_state.from.wrappers

\* C5 witness: the render loop reads the lists of cycle 1 while the refresher
\* has the lists of cycle 2 ready to publish
C5_Witness ==
    /\ cpc = "poll"
    /\ lock.readers > 0
    /\ async_state.from = [kegs |-> 1, engines |-> 1, wrappers |-> 1]
    /\ wpc = "publish"
    /\ cycle = 2

\* C6: at its publish attempt the refresher always has a step to take, and
\* when the render loop holds the read lock that step leaves the snapshot
\* and the lock as they were, drops the scanned lists and goes on to the
\* sleep before the next cycle
C6_WriterSkips ==
    /\ [](wpc = "publish" => ENABLED WorkerPublish)
    /\ [][ (wpc = "publish" /\ lock.readers > 0 /\ wpc' # wpc) =>
             /\ async_state' = async_state
             /\ lock' = lock
             /\ scanned' = <<>>
             /\ wpc' = "check" ]_vars

\* C6 witness: a cycle's lists were dropped: the refresher is past a scan
\* whose lists never reached the snapshot, and the render loop holds the lock
C6_Witness ==
    /\ wpc = "check"
    /\ cycle = 1
    /\ scanned = <<>>
    /\ async_state = AsyncState_default
    /\ lock.readers > 0

C8_NoPublishAfterStop ==
    [][ stopAt = "scan" => async_state' = async_state ]_vars

WritePcs == {"write_kegs", "write_engines", "write_wrappers"}

\* C8 as amended: after a stop signal sent during a scan no further scan
\* starts, and the snapshot changes only by the writes that publish the
\* lists of that scan
C8_OnlyTheScanUnderWay ==
    [][ stopAt = "scan" =>
          /\ cycle' = cycle
          /\ async_state' # async_state =>
               /\ wpc \in WritePcs
               /\ \A f \in {"kegs", "engines", "wrappers"} :
                    async_state'.from[f] \in {async_state.from[f], cycle} ]_vars

\* C8 witness: cycle 1 had been published, the stop signal came during the
\* scan of cycle 2, and the lists of cycle 2 are being published
C8_Witness ==
    /\ stopAt = "scan"
    /\ wpc = "write_engines"
    /\ async_state.from = [kegs |-> 2, engines |-> 1, wrappers |-> 1]

PushesThenPops(o) ==
    \E n \in 0..Len(o) :
        /\ Len(o) = 2 * n
        /\ \A i \in 1..n : o[i] = "push"
        /\ \A i \in (n + 1)..(2 * n) : o[i] = "pop"

\* C9: N push_nav calls followed by N pop_nav calls leave the stack, and so
\* what top_nav returns, as they were before the first push
C9_StackDiscipline ==
    PushesThenPops(ops) =>
        /\ stack = stack0
        /\ top_nav(stack) = top_nav(stack0)
        /\ cpc = "start"

\* C9 witness: two pushes and two pops on a stack that was not empty
C9_Witness ==
    /\ ops = <<"push", "push", "pop", "pop">>
    /\ Len(stack0) = MaxDepth0
    /\ stack = stack0

\* C10: pop_nav on an empty stack does not fail and leaves the stack empty,
\* with top_nav returning None
C10_PopOnEmpty ==
    [][ (stack = <<>> /\ ops' = Append(ops, "pop")) =>
          /\ stack' = <<>>
          /\ top_nav(stack') = None
          /\ cpc' = "start" ]_vars

\* C10 witness: a push and a pop emptied the stack and a further pop was
\* made on the empty stack
C10_Witness ==
    /\ stack0 = <<>>
    /\ ops = <<"push", "pop", "pop">>
    /\ stack = <<>>
    /\ cpc = "start"

\* C11 as claimed: when a Pop applied by the Controller has removed the last
\* nav from the stack, the Controller has not failed: the run goes on (or
\* ends as any other run does) with the empty stack
C11_EmptyStackIsValid ==
    (last.nav = "Pop" /\ stack = <<>>) => cpc # "panicked"

\* C12: every registered nav stores as its default index the position of
\* the first item flagged default, or 0 when no item is flagged; with
\* several items flagged the first one wins, so the shipped nav "keg"
\* (Launch at 1 and Kill Processes at 5 flagged) has default 1
C12_DefaultItemIndex ==
    /\ \A n \in 1..Len(context.navs) :
         LET menu == context.navs[n].menu
             d == default_item_index(context.navs[n])
         IN /\ d \in 0..(Len(menu) - 1)
            /\ IF \E k \in 1..Len(menu) : menu[k].is_default
               THEN /\ menu[d + 1].is_default
                    /\ \A j \in 1..d : ~menu[j].is_default
               ELSE d = 0
    /\ \A i \in 1..Len(issued) :
         (issued[i].kind = "nav" /\ issued[i].entry = ShippedKegMenu) =>
             default_item_index(get_nav(context, issued[i].id)) = 1

\* C12 witness: the shipped "keg" menu, with two flagged items, was
\* registered after a menu with no flagged item and one whose second item
\* is flagged
C12_Witness ==
    /\ Len(context.navs) = 3
    /\ context.navs[1].menu = <<FlaggedItem(FALSE), FlaggedItem(FALSE)>>
    /\ context.navs[1].default_item = 0
    /\ context.navs[2].menu = <<FlaggedItem(FALSE), FlaggedItem(TRUE)>>
    /\ context.navs[2].default_item = 1
    /\ context.navs[3].menu = ShippedKegMenu
    /\ Cardinality({k \in 1..Len(ShippedKegMenu) :
                        ShippedKegMenu[k].is_default}) = 2
    /\ context.navs[3].default_item = 1

\* C13: a ? pressed while the keybinds modal is hidden shows it and changes
\* nothing else; while it is shown, Esc or ? hides it and changes nothing
\* else, and every other key press changes nothing at all: focus, selected
\* row, cursor, current view, stack and exit flag stay, no nav action is
\* applied, no External collaborator runs and the run goes on
C13_ModalSuspendsKeys ==
    [][ (cpc = "poll" /\ last'.key # "none") =>
          /\ (~app.show_keybinds_modal /\ last'.key = "?") =>
                /\ app' = [app EXCEPT !.show_keybinds_modal = TRUE]
                /\ stack' = stack
                /\ cpc' = "read"
          /\ app.show_keybinds_modal =>
                /\ app' = IF last'.key \in {"Esc", "?"}
                          THEN [app EXCEPT !.show_keybinds_modal = FALSE]
                          ELSE app
                /\ stack' = stack
                /\ last'.nav = "none"
                /\ term' = term
                /\ cpc' = "read" ]_vars

\* C13 witness: q was pressed with the modal shown over a focused view: the
\* modal is still shown and the run goes on
C13_Witness ==
    /\ last.key = "q"
    /\ app.show_keybinds_modal
    /\ app.focus = "Content"
    /\ ~app.exit
    /\ cpc = "read"

\* C14 as claimed: a q press, with the modal hidden or shown, ends the
\* render loop after the current tick
C14_QuitFromAnyState ==
    [][ (cpc = "poll" /\ last'.key = "q") => cpc' = "done" ]_vars

\* C14 as amended: with the modal hidden, a q press in either focus sets
\* the exit flag and ends the render loop after the current tick, and once
\* the loop has ended nothing is rendered or handled any more; with the
\* modal shown, q changes nothing and the loop goes on
C14_QuitUnlessModal ==
    /\ [][ (cpc = "poll" /\ last'.key = "q" /\ ~app.show_keybinds_modal) =>
             /\ app' = [app EXCEPT !.exit = TRUE]
             /\ stack' = stack
             /\ cpc' = "done"
             /\ lock'.readers = 0 ]_vars
    /\ [][ (cpc = "poll" /\ last'.key = "q" /\ app.show_keybinds_modal) =>
             (app' = app /\ cpc' = "read") ]_vars
    /\ [][ cpc = "done" =>
             (cpc' = "done" /\ app' = app /\ stack' = stack /\ last' = last
              /\ lock'.readers = 0) ]_vars

\* C14 witness: q was pressed with a view focused and the modal hidden, the
\* loop has ended and the process has returned
C14_Witness ==
    /\ last.key = "q"
    /\ app.focus = "Content"
    /\ ~app.show_keybinds_modal
    /\ app.exit
    /\ cpc = "done"
    /\ status = "exit_ok"

HighlightedAction == TopNav.menu[app.menu_state + 1].action

\* C15: with the menu focused, the modal hidden and a LoadView(v) item
\* highlighted, Enter or Right sets focus to Content, the current view to v
\* and the cursor to 0, and leaves the stack, the selected row and the rest
\* alone; from the fresh state of the shipped program Enter loads the Kegs
\* view
C15_LoadView ==
    [][ (/\ cpc = "poll"
         /\ last'.key \in {"Enter", "Right"}
         /\ ~app.show_keybinds_modal
         /\ app.focus = "Menu"
         /\ stack # <<>>
         /\ HighlightedAction.kind = "LoadView")
        => /\ app' = [app EXCEPT !.focus = "Content",
                                 !.current_view = Some(HighlightedAction.view),
                                 !.clickables_state = 0]
           /\ stack' = stack
           /\ cpc' = "read"
           /\ (cfg = "shipped" /\ app = App_new /\ last'.key = "Enter") =>
                 get_view(Context(cfg), app'.current_view.value) = "KegsView" ]_vars

\* C15 witness: Enter in the fresh state of the shipped program: the Kegs
\* view is loaded and focused, nav "main" alone on the stack, row 0
C15_Witness ==
    /\ cfg = "shipped"
    /\ last.key = "Enter"
    /\ app = [App_new EXCEPT !.focus = "Content",
                             !.current_view = Some(Index(0))]
    /\ get_view(Context(cfg), Index(0)) = "KegsView"
    /\ stack = <<Index(0)>>
    /\ cpc = "read"

\* C16: whenever the stack is not empty the selected row is a row of the
\* top nav's menu; with the menu focused, Up and Down move it by exactly
\* one, stay at row 0 and at the last row (no wrap-around), and change
\* nothing else
C16_SelectedRowInRange ==
    /\ [](stack # <<>> => app.menu_state \in 0..(Len(TopNav.menu) - 1))
    /\ [][ (/\ cpc = "poll"
             /\ last'.key \in {"Up", "Down"}
             /\ ~app.show_keybinds_modal
             /\ app.focus = "Menu"
             /\ stack # <<>>)
            => LET n == Len(TopNav.menu)
                   r == app.menu_state
               IN /\ app' = [app EXCEPT !.menu_state =
                                 IF last'.key = "Up"
                                 THEN (IF r = 0 THEN 0 ELSE r - 1)
                                 ELSE (IF r = n - 1 THEN n - 1 ELSE r + 1)]
                  /\ stack' = stack
                  /\ cpc' = "read" ]_vars

\* C16 witness: Down was pressed on the last row of the shipped nav "keg"
\* (reached from its default row 1) and the row is still the last one
C16_Witness ==
    /\ cfg = "shipped"
    /\ stack = <<Index(0), Named("keg")>>
    /\ last.key = "Down"
    /\ app.focus = "Menu"
    /\ app.menu_state = Len(TopNav.menu) - 1
    /\ app.menu_state = 5

\* C17: with the menu focused, the modal hidden and an External item
\* highlighted, Enter or Right (1) leaves the alternate screen and raw mode,
\* (2) runs the collaborator while the tick is still open (the snapshot
\* stays read-locked, nothing is drawn and no key is handled), (3) enters
\* the alternate screen and raw mode again and (4) asks for a full redraw,
\* which the next draw makes; the Controller leaves focus, selected row,
\* current view, cursor and stack as they were. A step that fails ends the
\* run with the error instead
C17_ExternalProtocol ==
    /\ [][ (/\ cpc = "poll"
             /\ last'.key \in {"Enter", "Right"}
             /\ ~app.show_keybinds_modal
             /\ app.focus = "Menu"
             /\ stack # <<>>
             /\ HighlightedAction.kind = "External")
            => /\ app' = app
               /\ stack' = stack
               /\ cpc' \in {"external", "error"}
               /\ cpc' = "external" =>
                     (~term'.alt /\ ~term'.raw /\ lock' = lock) ]_vars
    /\ [](cpc = "external" => (~term.alt /\ ~term.raw /\ lock.readers > 0))
    /\ [][ cpc = "external" =>
             /\ app' = app
             /\ stack' = stack
             /\ last' = last
             /\ cpc' \in {"external", "read", "error"}
             /\ cpc' = "external" => term' = term
             /\ cpc' = "read" =>
                   term' = [alt |-> TRUE, raw |-> TRUE, clear |-> TRUE] ]_vars
    /\ [][ (term.clear /\ cpc = "read" /\ cpc' = "poll") =>
             term' = [term EXCEPT !.clear = FALSE] ]_vars

\* C17 witness: "Create Keg" of the shipped nav "main" was activated with
\* Enter, the collaborator has returned, the terminal is managed again and
\* a full redraw is due; the Controller's state is as before the Enter
C17_Witness ==
    /\ cfg = "shipped"
    /\ last.key = "Enter"
    /\ cpc = "read"
    /\ term = [alt |-> TRUE, raw |-> TRUE, clear |-> TRUE]
    /\ stack = <<Index(0)>>
    /\ app = [App_new EXCEPT !.menu_state = 1]
    /\ HighlightedAction = External("create_keg")

\* C18: whenever the process has ended, by q, by an error returned out of
\* run (a failed External step, click, event poll or draw) or by a panic,
\* the terminal is in normal mode (no raw mode, no alternate screen); the
\* process ends successfully only when q ended the loop, and with the
\* error or the panic otherwise
C18_TerminalRestored ==
    status # "running" =>
        /\ ~term.raw
        /\ ~term.alt
        /\ status = "exit_ok" <=> (cpc = "done" /\ app.exit)
        /\ status = "exit_err" <=> cpc = "error"
        /\ status = "abort" <=> cpc = "panicked"

\* C18 witness: a click on a keg failed with the Kegs view focused (the
\* terminal was in raw mode on the alternate screen); the process has ended
\* with the error and the terminal is in normal mode
C18_Witness ==
    /\ status = "exit_err"
    /\ cpc = "error"
    /\ last.key = "Enter"
    /\ app.focus = "Content"
    /\ ~term.raw
    /\ ~term.alt

\* C19: Enter on a keg of the focused Kegs view has two outcomes only. The
\* click fails: the error ends the run, no Push or Pop is applied, and
\* stack, focus, current view, selected row, cursor and current_keg are as
\* before the press. Or it succeeds: current_keg is the keg under the
\* cursor and nav "keg" is pushed
C19_ClickFailureAppliesNothing ==
    [][ (/\ cpc = "poll"
         /\ last'.key = "Enter"
         /\ ~app.show_keybinds_modal
         /\ app.focus = "Content"
         /\ app.current_view # None
         /\ get_view(Context(cfg), app.current_view.value) = "KegsView"
         /\ app.clickables_state < Len(async_state.kegs))
        => \/ /\ cpc' = "error"
              /\ last'.nav = "none"
              /\ app' = app
              /\ stack' = stack
           \/ /\ cpc' = "read"
              /\ last'.nav = "Push"
              /\ app'.current_keg =
                     Some(async_state.kegs[app.clickables_state + 1])
              /\ stack' = push_nav(stack, Named("keg")) ]_vars

\* C19 witness: a keg had been selected before, and a later click on a keg
\* failed: the run has ended with the error, the earlier selection is
\* still the current keg and nav "main" alone is on the stack
C19_Witness ==
    /\ cfg = "shipped"
    /\ cpc = "error"
    /\ last = [key |-> "Enter", nav |-> "none"]
    /\ app.focus = "Content"
    /\ app.current_view = Some(Index(0))
    /\ app.current_keg # None
    /\ stack = <<Index(0)>>

\* C20: the k-th view registration returned ViewID::Index(k-1) and the k-th
\* nav registration NavID::Index(k-1); every id returned so far still
\* resolves to the view or menu it was returned for, whatever was
\* registered later; and a name resolves to the index of the latest
\* registration under that name
C20_RegistryAppendOnly ==
    \A i \in 1..Len(issued) :
        LET e == issued[i]
            k == Cardinality({j \in 1..i : issued[j].kind = e.kind})
            latest == \A j \in (i + 1)..Len(issued) :
                          ~(issued[j].kind = e.kind /\ issued[j].name = e.name)
        IN /\ e.id = Index(k - 1)
           /\ IF e.kind = "view"
              THEN /\ view_resolves(context, e.id)
                   /\ get_view(context, e.id) = e.entry
                   /\ view_resolves(context, Named(e.name))
                   /\ latest => get_view_index(context, Named(e.name)) = k - 1
              ELSE /\ nav_resolves(context, e.id)
                   /\ get_nav(context, e.id).menu = e.entry
                   /\ nav_resolves(context, Named(e.name))
                   /\ latest => get_nav_index(context, Named(e.name)) = k - 1

\* C20 witness: nav "keg" was registered, then "main", then "keg" again
\* with another menu: Named("keg") resolves to index 2 and Index(0) still
\* to the first menu
C20_Witness ==
    /\ Len(issued) = 3
    /\ \A i \in 1..3 : issued[i].kind = "nav"
    /\ <<issued[1].name, issued[2].name, issued[3].name>> =
           <<"keg", "main", "keg">>
    /\ issued[1].entry # issued[3].entry
    /\ get_nav_index(context, Named("keg")) = 2
    /\ get_nav(context, Index(0)).menu = issued[1].entry
    /\ get_nav(context, Named("keg")).menu = issued[3].entry

\* C21: registering a nav with an empty item list fails (the assertion ends
\* the process) and adds nothing to the nav table or the name table, and
\* issues no id; so every nav stored in the registry, and every nav a name
\* or an issued id resolves to, has at least one item
C21_EmptyNavRejected ==
    [][/\ context'.panic =>
            /\ context'.navs = context.navs
            /\ context'.named_nav_ids = context.named_nav_ids
            /\ issued' = issued
       /\ ~context'.panic => Len(issued') = Len(issued) + 1
       /\ \A k \in 1..Len(context'.navs) : Len(context'.navs[k].menu) >= 1
       /\ \A name \in NavNames :
              nav_resolves(context', Named(name)) =>
                  Len(get_nav(context', Named(name)).menu) >= 1
       /\ \A i \in 1..Len(issued') :
              issued'[i].kind = "nav" =>
                  Len(get_nav(context', issued'[i].id).menu) >= 1]_vars

\* C21 witness: two navs were registered, then an empty menu was rejected:
\* the failure is recorded and both tables still hold the two navs
C21_Witness ==
    /\ context.panic
    /\ Len(issued) = 2
    /\ Len(context.navs) = 2
    /\ Len(context.named_nav_ids) = 2
    /\ \A k \in 1..2 : issued[k].kind = "nav"

\* C22: a refresher step leaves the nav stack, the registry and the
\* controller's transient state unchanged; a controller step (render, key
\* handling, click, external action) leaves the shared snapshot unchanged;
\* the snapshot changes only in a step of the refresher's publish, with the
\* write lock held
C22_OnlySnapshotShared ==
    [][/\ WorkerVars' # WorkerVars =>
            UNCHANGED <<cfg, app, stack, cpc, last, term, status, context>>
       /\ <<app, stack, cpc, last, term, status>>' #
               <<app, stack, cpc, last, term, status>> =>
            /\ async_state' = async_state
            /\ UNCHANGED WorkerVars
       /\ async_state' # async_state =>
            /\ wpc \in WritePcs
            /\ lock.writer
            /\ WorkerVars' # WorkerVars]_vars

\* C22 witness: the refresher has published its first cycle and is
\* scanning again while the controller, in the content of a view, has moved
\* the cursor and holds the snapshot of this tick
C22_Witness ==
    /\ async_state.from.wrappers = 1
    /\ wpc = "scan"
    /\ cycle = 2
    /\ cpc = "poll"
    /\ app.focus = "Content"
    /\ app.clickables_state = 1
    /\ stack # <<>>

\* the scan cycles the refresher has gone through, publish attempt included
CompletedCycles ==
    IF wpc \in {"scan", "publish"} \cup WritePcs THEN cycle - 1 ELSE cycle

\* C23 as stated: the snapshot a successful read obtains is the result of
\* the last completed cycle or of the one before it
C23_StalenessBound ==
    [][(cpc = "read" /\ cpc' = "poll") =>
           async_state'.from.kegs >= CompletedCycles' - 1]_vars

\* C23 amended: the snapshot a read holds is the result of the last cycle
\* whose publish found the lock free (the initial empty snapshot when none
\* did); it is behind the last completed cycle by exactly the number of
\* cycles since whose publish found the lock held, each of which dropped
\* its lists, and that number has no bound of one
C23_StaleBySkippedCycles ==
    lock.readers > 0 =>
        /\ async_state.from.kegs = CompletedCycles - skips
        /\ async_state.from.engines = async_state.from.kegs
        /\ async_state.from.wrappers = async_state.from.kegs

\* C23 witness: the render loop has read, for a new tick, the cycle-0
\* snapshot after two cycles were completed and dropped
C23_Witness ==
    /\ cpc = "poll"
    /\ last = NoLast
    /\ lock.readers > 0
    /\ wpc = "check"
    /\ cycle = 2
    /\ skips = 2
    /\ async_state.from.kegs = 0

\* C24: a tick that starts behind its schedule skips its sleep, and the loop
\* does not then run further ticks without sleeping to catch up: after a
\* tick whose body took less than the period, the next tick sleeps unless
\* it is the first one behind (no two ticks in a row skip the sleep when
\* the body between them was short)
C24_NoCatchUpBursts ==
    (tpc = "body" /\ work < duration) => skipped <= 1

\* C25: the bound of a content-focused Up or Down on the Kegs view is taken
\* from the snapshot held in the tick of that key press, whatever the
\* cursor and the earlier snapshots were: with n kegs in it, Down moves the
\* cursor c to c + 1 when c + 1 < n (so after the list has grown the cursor
\* advances up to the new n - 1), Up moves it to c - 1 or leaves it at 0,
\* and with no kegs in it (the view has turned to None) neither key moves
\* the cursor
C25_InteractivityPerKeyPress ==
    [][ (/\ cpc = "poll"
         /\ last'.key \in {"Up", "Down"}
         /\ ~app.show_keybinds_modal
         /\ app.focus = "Content"
         /\ app.current_view # None
         /\ get_view(Context(cfg), app.current_view.value) = "KegsView")
        => LET n == Len(async_state.kegs)
               c == app.clickables_state
           IN app'.clickables_state =
                  IF n = 0 THEN c
                  ELSE IF last'.key = "Down"
                  THEN (IF c + 1 < n THEN c + 1 ELSE c)
                  ELSE (IF c = 0 THEN 0 ELSE c - 1) ]_vars

\* C25 witness: the cursor was moved to the second keg under an earlier
\* snapshot; the snapshot of this tick has no kegs, and the Down just
\* pressed left the cursor where it was
C25_Witness ==
    /\ last.key = "Down"
    /\ cpc = "read"
    /\ app.focus = "Content"
    /\ app.current_view # None
    /\ get_view(Context(cfg), app.current_view.value) = "KegsView"
    /\ async_state.kegs = <<>>
    /\ async_state.from.wrappers = 2
    /\ wpc = "check"
    /\ app.clickables_state = 1

C27_ReturnToMenu ==
    [][ (/\ cpc = "poll"
         /\ last'.key \in {"Left", "Esc"}
         /\ ~app.show_keybinds_modal)
        => /\ app'.focus = "Menu"
           /\ app' = [app EXCEPT !.focus = "Menu"]
           /\ app.focus = "Menu" => app' = app
           /\ stack' = stack
           /\ stack # <<>> => cpc' = "read" ]_vars

\* C27 witness: the cursor was moved inside a view and Left or Esc then gave
\* the focus back to the menu: the view is still loaded and the cursor kept
C27_Witness ==
    /\ last.key \in {"Left", "Esc"}
    /\ cpc = "read"
    /\ app.focus = "Menu"
    /\ app.current_view # None
    /\ app.clickables_state = 1
    /\ stack # <<>>

\* C28: in every state where a key can be handled with the modal hidden,
\* Right and l have the same outcome; with the menu focused Enter has that
\* outcome too (whether or not a keg could be hydrated): the same App, the
\* same stack, the same result and the same navigation; with the content
\* focused Right and l change nothing
C28_EnterIsRightInMenu ==
    (cpc = "poll" /\ ~app.show_keybinds_modal) =>
        LET right == handle_key_event(app, Context(cfg), stack, "Right",
                                      async_state, TRUE)
        IN /\ handle_key_event(app, Context(cfg), stack, "l", async_state,
                               TRUE) = right
           /\ app.focus = "Menu" =>
                \A hydrated \in BOOLEAN :
                    handle_key_event(app, Context(cfg), stack, "Enter",
                                     async_state, hydrated) = right
           /\ app.focus = "Content" => right = Result(app, stack, "ok", "none")

\* C28 witness: Right on a highlighted item whose action is a push has
\* pushed the nav and reset the menu, as Enter does
C28_Witness ==
    /\ last.key = "Right"
    /\ last.nav = "Push"
    /\ cpc = "read"
    /\ Len(stack) = 2
    /\ app.focus = "Menu"

\* C29: Enter with the content focused on the Kegs view. With k >= 1 kegs in
\* the snapshot and the cursor i < k, and the keg's record hydrated (a
\* failed hydration is the error outcome of C19), current_keg becomes
\* kegs[i], nav "keg" is pushed on the stack, and the press ends with the
\* menu focused, no current view and the selected row at the default index
\* of "keg", which is 1 (Launch), and the loop goes on. With no kegs Enter
\* changes nothing
C29_DrillIntoKeg ==
    [][ (/\ cpc = "poll"
         /\ last'.key = "Enter"
         /\ ~app.show_keybinds_modal
         /\ app.focus = "Content"
         /\ app.current_view # None
         /\ get_view(Context(cfg), app.current_view.value) = "KegsView")
        => LET k == Len(async_state.kegs)
               i == app.clickables_state
           IN /\ k = 0 => /\ app' = app
                          /\ stack' = stack
                          /\ cpc' = "read"
              /\ (k >= 1 /\ i < k /\ cpc' # "error") =>
                    /\ app'.current_keg = Some(async_state.kegs[i + 1])
                    /\ stack' = stack \o <<Named("keg")>>
                    /\ app'.focus = "Menu"
                    /\ app'.current_view = None
                    /\ app'.menu_state =
                           default_item_index(get_nav(Context(cfg),
                                                      Named("keg")))
                    /\ app'.menu_state = 1
                    /\ cpc' = "read" ]_vars

\* C29 witness: Enter on the second of two kegs has opened it: nav "keg"
\* is on top of "main", the menu is focused on Launch and no view is loaded
C29_Witness ==
    /\ last = [key |-> "Enter", nav |-> "Push"]
    /\ cpc = "read"
    /\ stack = <<Index(0), Named("keg")>>
    /\ app.current_keg = Some(2)
    /\ app.focus = "Menu"
    /\ app.current_view = None
    /\ app.menu_state = 1

\* C30: whenever Enter makes the controller click a view that reports
\* Clickables(n) for the snapshot of the tick, the cursor it passes as the
\* index is below n, also after the refresher has published a shorter keg
\* list since the cursor was moved; the Kegs view never indexes its list
\* out of range
C30_ClickIndexInBounds ==
    [][ (/\ cpc = "poll"
         /\ last'.key = "Enter"
         /\ ~app.show_keybinds_modal
         /\ app.focus = "Content"
         /\ app.current_view # None
         /\ ActiveInteractivity.kind = "Clickables")
        => /\ app.clickables_state < ActiveInteractivity.count
           /\ cpc' # "panicked" ]_vars

\* C31: in every reachable state, focus = Content implies that current_view
\* is Some and names a registered view, so the expect on current_view in
\* the Up, Down and Enter arms cannot fail
C31_ContentFocusHasView ==
    app.focus = "Content" =>
        /\ app.current_view # None
        /\ view_resolves(Context(cfg), app.current_view.value)

\* C31 witness: Enter was handled with the content focused (the view's
\* click asked for no navigation) and the view is still the current one
C31_Witness ==
    /\ last = [key |-> "Enter", nav |-> "none"]
    /\ cpc = "read"
    /\ app.focus = "Content"
    /\ app.current_view # None

\* C32: with the navs and views main registers and "main" as the initial
\* nav, once run has pushed the initial nav the stack is <<main>> or
\* <<main, keg>> in every reachable state, whatever the keys and the
\* refresher do; it is never empty, and the only panic of a key press is
\* that of a click (Enter in a view), never one of top_nav().unwrap() in
\* navigation
C32_ShippedStackDepth ==
    (cfg = "shipped" /\ cpc # "start") =>
        /\ stack \in {<<Index(0)>>, <<Index(0), Named("keg")>>}
        /\ \A k \in 1..Len(stack) : nav_resolves(Context(cfg), stack[k])
        /\ get_nav_index(Context(cfg), stack[1]) =
               get_nav_index(Context(cfg), Named("main"))
        /\ cpc = "panicked" => last = [key |-> "Enter", nav |-> "none"]

\* C32 witness: a keg was opened and Back has popped "keg" again: the
\* stack is back to "main" alone
C32_Witness ==
    /\ cfg = "shipped"
    /\ last = [key |-> "Enter", nav |-> "Pop"]
    /\ cpc = "read"
    /\ stack = <<Index(0)>>
    /\ app.current_keg # None

\* C33: under the registration of main, in every reachable state whose top
\* nav is "keg" a keg is selected (current_keg is Some); so is it while an
\* external action started from the "keg" menu runs
C33_KegSelectedInKegMenu ==
    (/\ cfg = "shipped"
     /\ top_nav(stack) # None
     /\ get_nav_index(Context(cfg), top_nav(stack).value) =
            get_nav_index(Context(cfg), Named("keg")))
    => app.current_keg # None

\* C33 witness: an external action of the "keg" menu (Launch, the default
\* row) is running for the selected keg
C33_Witness ==
    /\ cfg = "shipped"
    /\ cpc = "external"
    /\ last.key \in {"Enter", "Right"}
    /\ stack = <<Index(0), Named("keg")>>
    /\ app.menu_state = 1
    /\ app.current_keg # None

\* C34: from the draw of a tick to the end of its input handling the render
\* loop holds the read lock: no step taken in between changes the snapshot,
\* a publish attempted in between is skipped, and the key of the tick is
\* handled with the snapshot that was drawn
C34_OneSnapshotPerTick ==
    [][ cpc = "poll" =>
          /\ lock.readers > 0
          /\ ~lock.writer
          /\ wpc \notin WritePcs
          /\ async_state' = async_state
          /\ wpc' \notin WritePcs
          /\ cpc' = "poll" => lock' = lock ]_vars

\* C34 witness: the snapshot of cycle 1 was drawn, the refresher's attempt
\* to publish cycle 2 was skipped, and Down was then handled with the two
\* kegs of cycle 1
C34_Witness ==
    /\ cpc = "read"
    /\ last.key = "Down"
    /\ app.focus = "Content"
    /\ app.clickables_state = 1
    /\ async_state.from.kegs = 1
    /\ cycle = 2
    /\ skips = 1
    /\ wpc = "check"

\* C35: while an External collaborator runs the render loop holds the read
\* lock: every step taken in that time leaves the snapshot unchanged, every
\* publish the refresher attempts is skipped (its lists are dropped and
\* counted as skipped), and the step in which the collaborator returns
\* leaves the snapshot unchanged too
C35_FrozenDuringExternal ==
    [][ cpc = "external" =>
          /\ lock.readers > 0
          /\ ~lock.writer
          /\ async_state' = async_state
          /\ (wpc = "publish" /\ wpc' # wpc) =>
                 /\ wpc' = "check"
                 /\ skips' = skips + 1
                 /\ lock' = lock
          /\ cpc' = "external" => lock' = lock ]_vars

\* C35 witness: an External collaborator is still running, the snapshot is
\* the initial one, and two refresh cycles have completed and were dropped
C35_Witness ==
    /\ cpc = "external"
    /\ wpc = "check"
    /\ cycle = 2
    /\ skips = 2
    /\ async_state = AsyncState_default

\* C37: at the first tick after run has pushed the initial nav, whichever
\* registered nav that is, focus = Menu, current_view = None, the cursor is
\* 0 and the selected row is the default item index of that nav
C37_InitialSelection ==
    (cpc = "read" /\ Len(stack) = 1) =>
        /\ app.focus = "Menu"
        /\ app.current_view = None
        /\ app.clickables_state = 0
        /\ app.menu_state = default_item_index(get_nav(context, stack[1]))


\* C38: the assertions of the setup wizard's view hold: whenever its click
\* is invoked (Enter with the focus on the content and the view loaded) the
\* snapshot reports brew or KegWorks as missing, Some(false), and whenever
\* the view is drawn the interaction cursor is 0, 1 or 2, so that run never
\* ends in either unreachable!()
C38_WizardClicked ==
    /\ ~app.show_keybinds_modal
    /\ app.focus = "Content"
    /\ app.current_view # None
    /\ view_resolves(Context(cfg), app.current_view.value)
    /\ get_view(Context(cfg), app.current_view.value) = "SetupWizardView"
    /\ cpc = "poll"
    /\ last'.key = "Enter"

C38_WizardAssertions ==
    /\ [][ C38_WizardClicked =>
             /\ \/ async_state.brew_installed = Some(FALSE)
                \/ async_state.kegworks_installed = Some(FALSE)
             /\ cpc' # "panicked" ]_vars
    /\ [][ (cpc = "read" /\ cpc' # "read" /\ app.current_view # None
            /\ get_view(Context(cfg), app.current_view.value)
                 = "SetupWizardView") =>
             /\ app.clickables_state \in {0, 1, 2}
             /\ cpc' # "panicked" ]_vars


====
